---- MODULE Spec2Model ----
(***************************************************************************)
(* A model of labelled_data_array: the classes LabelledDataArray           *)
(* (LabelledDataArray.py) and DataArray (DataArray.py).                    *)
(*                                                                         *)
(* An n-dimensional buffer (numpy.ndarray) is a record                     *)
(*   [shape |-> <<d1,..,dn>>, data |-> [index tuples -> Int]]              *)
(* with 0-based positions, as in Python.  The memory of the buffers lives  *)
(* in heap; an ndarray object is a view [buf, axes] on one heap entry, so  *)
(* that numpy.transpose (a view on the same memory) and ndarray.sum (fresh *)
(* memory) are told apart.                                                 *)
(***************************************************************************)
EXTENDS Integers, Sequences, FiniteSets, TLC

VARIABLES
    heap,    \* Seq of buffers: the memory every ndarray object points into
    arrs,    \* Seq of the array objects that exist (arrs[1] is the one the caller built)
    origin,  \* history: origin[i] tells which call returned arrs[i]
    call,    \* the last call made and its arguments
    ret,     \* what the last call returned or raised
    writes   \* number of positional assignments made so far

vars == <<heap, arrs, origin, call, ret, writes>>

(***************************** bounds **************************************)
\* A buffer holds at most MaxCells elements; every axis has 2..MaxLen positions.
MaxCells == 8
MaxLen == 3
\* At most MaxArrs array objects are followed (the caller's and those derived).
MaxArrs == 3
\* At most MaxWrites positional assignments are made.
MaxWrites == 1
\* get_indexer is asked for at most MaxKeys keys.
MaxKeys == 2

(***************************** Python values *******************************)
None == <<>>
Some(x) == <<x>>

Range(s) == {s[i] : i \in DOMAIN s}

Err(exc, what, axis) == [exc |-> exc, what |-> what, axis |-> axis]
Raise(e) == [ok |-> FALSE, err |-> e]
Return(v) == [ok |-> TRUE, val |-> v]

\* list.index(x): the first position (0-based) of x
ListIndex(s, x) == (CHOOSE i \in DOMAIN s : s[i] = x /\ \A j \in 1..(i - 1) : s[j] # x) - 1

(***************************** numpy ***************************************)
RECURSIVE Prod(_)
Prod(s) == IF s = <<>> THEN 1 ELSE Head(s) * Prod(Tail(s))

\* every index tuple of an array of this shape
RECURSIVE IndexSet(_)
IndexSet(shape) ==
    IF shape = <<>> THEN {<<>>}
    ELSE {<<i>> \o r : i \in 0..(Head(shape) - 1), r \in IndexSet(Tail(shape))}

\* numpy.arange(1, n+1).reshape(shape): row-major, every element distinct
RECURSIVE Lin(_, _, _)
Lin(idx, shape, acc) ==
    IF idx = <<>> THEN acc
    ELSE Lin(Tail(idx), Tail(shape), acc * Head(shape) + Head(idx))

Arange(shape) ==
    [shape |-> shape, data |-> [idx \in IndexSet(shape) |-> 1 + Lin(idx, shape, 0)]]

\* An ndarray object: a view of heap entry buf whose axis i is the buffer's axis axes[i].
View(buf, axes) == [buf |-> buf, axes |-> axes]
Identity(n) == [i \in 1..n |-> i]

ViewNdim(v) == Len(v.axes)
ViewShape(h, v) == [i \in DOMAIN v.axes |-> h[v.buf].shape[v.axes[i]]]

\* the buffer position a view position stands for
BaseIdx(v, idx) ==
    [k \in DOMAIN v.axes |-> idx[CHOOSE i \in DOMAIN v.axes : v.axes[i] = k]]

\* the contents seen through the view, as a value
Materialize(h, v) ==
    [shape |-> ViewShape(h, v),
     data |-> [idx \in IndexSet(ViewShape(h, v)) |-> h[v.buf].data[BaseIdx(v, idx)]]]

(***************************** slices and keys *****************************)
\* One element of a sel key: a slice, a string, or something else (an int).
Slice(a, b, c) == [kind |-> "slice", start |-> a, stop |-> b, step |-> c, s |-> "", i |-> 0]
Str(x) == [kind |-> "str", start |-> None, stop |-> None, step |-> None, s |-> x, i |-> 0]
IntKey(p) == [kind |-> "int", start |-> None, stop |-> None, step |-> None, s |-> "", i |-> p]

Min(a, b) == IF a < b THEN a ELSE b
Max(a, b) == IF a > b THEN a ELSE b

\* slice.indices(d): the (start, stop, step) a slice stands for on an axis of d positions
SliceBounds(sl, d) ==
    LET step == IF sl.step = None THEN 1 ELSE sl.step[1]
        lower == IF step > 0 THEN 0 ELSE -1
        upper == IF step > 0 THEN d ELSE d - 1
        Clip(x) == IF x < 0 THEN Max(x + d, lower) ELSE Min(x, upper)
        start == IF sl.start = None THEN (IF step > 0 THEN lower ELSE upper)
                 ELSE Clip(sl.start[1])
        stop == IF sl.stop = None THEN (IF step > 0 THEN upper ELSE lower)
                ELSE Clip(sl.stop[1])
    IN  [start |-> start, stop |-> stop, step |-> step]

\* the positions a slice selects on an axis of d positions, in order
SlicePositions(sl, d) ==
    LET b == SliceBounds(sl, d)
        span == IF b.step > 0 THEN b.stop - b.start ELSE b.start - b.stop
        astep == IF b.step > 0 THEN b.step ELSE -b.step
        n == IF span <= 0 THEN 0 ELSE (span + astep - 1) \div astep
    IN  [j \in 1..n |-> b.start + (j - 1) * b.step]

\* a[key] on a 1-D label vector: a sub-vector for a slice, one label for a position
VectorItem(vec, k) ==
    IF k.kind = "slice"
    THEN LET pos == SlicePositions(k, Len(vec)) IN [j \in DOMAIN pos |-> vec[pos[j] + 1]]
    ELSE vec[k.i + 1]

\* values[key] for a tuple of slices and positions (basic indexing): a key shorter
\* than ndim is completed with full slices; a position drops its axis.
Pad(key, n) == key \o [j \in 1..(n - Len(key)) |-> Slice(None, None, None)]

BasicIndex(nd, key) ==
    LET n == Len(nd.shape)
        full == Pad(key, n)
        kept == SelectSeq(Identity(n), LAMBDA k : full[k].kind = "slice")
        pos == [k \in 1..n |->
                  IF full[k].kind = "slice" THEN SlicePositions(full[k], nd.shape[k])
                  ELSE <<full[k].i>>]
        shape == [j \in DOMAIN kept |-> Len(pos[kept[j]])]
        src(idx) == [k \in 1..n |->
                       IF full[k].kind = "slice"
                       THEN pos[k][idx[CHOOSE j \in DOMAIN kept : kept[j] = k] + 1]
                       ELSE full[k].i]
    IN  [shape |-> shape, data |-> [idx \in IndexSet(shape) |-> nd.data[src(idx)]]]

\* numpy.transpose(values, axes), axes 0-based: a view on the same memory
TransposeOk(v, axes) == Len(axes) = ViewNdim(v) /\ Cardinality(Range(axes)) = Len(axes)
Transpose(v, axes) == View(v.buf, [i \in DOMAIN axes |-> v.axes[axes[i] + 1]])

\* values.sum(axis=ax), ax 0-based: a new buffer
RECURSIVE SumOver(_, _, _, _)
SumOver(nd, idx, ax, p) ==
    IF p < 0 THEN 0
    ELSE nd.data[SubSeq(idx, 1, ax) \o <<p>> \o SubSeq(idx, ax + 1, Len(idx))]
         + SumOver(nd, idx, ax, p - 1)

SumAxis(nd, ax) ==
    LET shape == SubSeq(nd.shape, 1, ax) \o SubSeq(nd.shape, ax + 2, Len(nd.shape))
    IN  [shape |-> shape,
         data |-> [idx \in IndexSet(shape) |-> SumOver(nd, idx, ax, nd.shape[ax + 1] - 1)]]

(***************************** pandas **************************************)
\* Series(data, index) and DataFrame(data, index, columns), as values
Series(data, index) == [kind |-> "Series", data |-> data, index |-> index]
DataFrame(data, index, columns) ==
    [kind |-> "DataFrame", data |-> data, index |-> index, columns |-> columns]
Raw(data) == [kind |-> "ndarray", data |-> data]

\* numpy.flatnonzero(vec == x): the positions (0-based, ascending) holding x
FlatNonZero(vec, x) ==
    LET hits == SelectSeq(Identity(Len(vec)), LAMBDA i : vec[i] = x)
    IN  [j \in DOMAIN hits |-> hits[j] - 1]

RECURSIVE Flatten(_)
Flatten(ss) == IF ss = <<>> THEN <<>> ELSE Head(ss) \o Flatten(Tail(ss))

\* pandas.Index(vec).get_indexer_for(keys): on an index without duplicates one
\* entry per key (its position, or -1); on an index with duplicates, for every key
\* all the positions holding it (or -1), concatenated (get_indexer_non_unique).
GetIndexerFor(vec, keys) ==
    LET one(x) == IF FlatNonZero(vec, x) = <<>> THEN <<-1>> ELSE FlatNonZero(vec, x)
    IN  IF Cardinality(Range(vec)) = Len(vec)
        THEN [j \in DOMAIN keys |-> one(keys[j])[1]]
        ELSE Flatten([j \in DOMAIN keys |-> one(keys[j])])

(***************************** LabelledDataArray ***************************)
DefaultNames == <<"axis_0", "axis_1", "axis_2", "axis_3", "axis_4">>

\* (mutant) only the first axis is compared
FirstBadAxisFirstOnly(shape, axis_labels) ==
    IF Len(axis_labels[1]) # shape[1] THEN 0 ELSE -1

\* the first axis whose label count differs from the buffer's, or -1
FirstBadAxis(shape, axis_labels) ==
    LET bad == SelectSeq(Identity(Len(shape)), LAMBDA ix : Len(axis_labels[ix]) # shape[ix])
    IN  IF bad = <<>> THEN -1 ELSE bad[1] - 1

\* LabelledDataArray.__init__(values, axis_labels, axis_names).  The names are
\* list(axis_names), always a list: the isinstance test that ends __init__ never
\* raises, and the number of names is compared with nothing.
LabelledDataArrayInit(h, values, axis_labels, axis_names) ==
    LET names == IF axis_names = None
                 THEN SubSeq(DefaultNames, 1, Len(axis_labels))
                 ELSE axis_names[1]
        shape == ViewShape(h, values)
    IN  IF Len(axis_labels) # ViewNdim(values)
        THEN Raise(Err("ValueError", "n_axis_labels", -1))
        ELSE IF FirstBadAxis(shape, axis_labels) # -1
        THEN Raise(Err("ValueError", "axis_label_size", FirstBadAxis(shape, axis_labels)))
        ELSE Return([cls |-> "LabelledDataArray", values |-> values,
                     axis_labels |-> axis_labels, axis_names |-> names,
                     n_dims |-> Len(axis_labels)])

\* DataArray.__init__(values, axis_labels)
DataArrayInit(h, values, axis_labels) ==
    LET shape == ViewShape(h, values)
    IN  IF Len(axis_labels) # ViewNdim(values)
        THEN Raise(Err("ValueError", "n_axis_labels", -1))
        ELSE IF FirstBadAxis(shape, axis_labels) # -1
        THEN Raise(Err("ValueError", "axis_label_size", FirstBadAxis(shape, axis_labels)))
        ELSE Return([cls |-> "DataArray", values |-> values,
                     axis_labels |-> axis_labels, n_dims |-> Len(axis_labels)])

\* shape
Shape(h, a) == ViewShape(h, a.values)

\* __getitem__(key) with a tuple of slices and positions
GetItem(h, a, key) == BasicIndex(Materialize(h, a.values), key)

\* __setitem__(idx, value) at one position: writes the memory the view points into
SetItem(h, a, idx, value) ==
    [h EXCEPT ![a.values.buf].data[BaseIdx(a.values, idx)] = value]

\* (mutant) the last match
LabelPositionLast(vec, x) == FlatNonZero(vec, x)[Len(FlatNonZero(vec, x))]

\* the position a label resolves to: the first match
LabelPosition(vec, x) == FlatNonZero(vec, x)[1]

\* LabelledDataArray._SelectIndexer.__getitem__: the loop over the key's elements
RECURSIVE ResolveKey(_, _, _, _, _)
ResolveKey(a, key, k, apply_keys, slice_axis) ==
    IF k > Len(key) THEN Return([apply_keys |-> apply_keys, slice_axis |-> slice_axis])
    ELSE IF key[k].kind = "slice"
    THEN ResolveKey(a, key, k + 1, Append(apply_keys, key[k]), Append(slice_axis, k - 1))
    ELSE IF key[k].kind = "str"
    THEN IF key[k].s \notin Range(a.axis_labels[k])
         THEN Raise(Err("ValueError", "key_not_found", k - 1))
         ELSE ResolveKey(a, key, k + 1,
                         Append(apply_keys, IntKey(LabelPosition(a.axis_labels[k], key[k].s))),
                         slice_axis)
    ELSE Raise(Err("ValueError", "invalid_key_type", -1))

\* DataArray._SelectIndexer.__getitem__: the same loop without the final else
RECURSIVE ResolveKeyDataArray(_, _, _, _, _)
ResolveKeyDataArray(a, key, k, apply_keys, slice_axis) ==
    IF k > Len(key) THEN Return([apply_keys |-> apply_keys, slice_axis |-> slice_axis])
    ELSE IF key[k].kind = "slice"
    THEN ResolveKeyDataArray(a, key, k + 1, Append(apply_keys, key[k]),
                             Append(slice_axis, k - 1))
    ELSE IF key[k].kind = "str"
    THEN IF key[k].s \notin Range(a.axis_labels[k])
         THEN Raise(Err("ValueError", "key_not_found", k - 1))
         ELSE ResolveKeyDataArray(a, key, k + 1,
                         Append(apply_keys, IntKey(LabelPosition(a.axis_labels[k], key[k].s))),
                         slice_axis)
    ELSE ResolveKeyDataArray(a, key, k + 1, apply_keys, slice_axis)

\* (mutant) the labels of the first sliced axis, whatever j
SlicedLabelsOfFirst(a, apply_keys, slice_axis, j) ==
    VectorItem(a.axis_labels[slice_axis[1] + 1], apply_keys[slice_axis[1] + 1])

\* axis_labels[slice_axis[j]][apply_keys[slice_axis[j]]]: the labels of the j-th sliced axis
SlicedLabels(a, apply_keys, slice_axis, j) ==
    VectorItem(a.axis_labels[slice_axis[j] + 1], apply_keys[slice_axis[j] + 1])

\* the wrapping of the positional result by its dimensionality (the same text in
\* both classes); a failed assert raises AssertionError
Wrap(a, result, apply_keys, slice_axis) ==
    IF Len(result.shape) = 1
    THEN IF Len(slice_axis) # 1 THEN Raise(Err("AssertionError", "slice_axis", -1))
         ELSE Return(Series(result, SlicedLabels(a, apply_keys, slice_axis, 1)))
    ELSE IF Len(result.shape) = 2
    THEN IF Len(slice_axis) # 2 THEN Raise(Err("AssertionError", "slice_axis", -1))
         ELSE Return(DataFrame(result, SlicedLabels(a, apply_keys, slice_axis, 1),
                               SlicedLabels(a, apply_keys, slice_axis, 2)))
    ELSE Return(Raw(result))

\* sel[key], key already a tuple
sel(h, a, key) ==
    IF Len(key) # a.n_dims THEN Raise(Err("ValueError", "indices", -1))
    ELSE LET r == IF a.cls = "DataArray"
                  THEN ResolveKeyDataArray(a, key, 1, <<>>, <<>>)
                  ELSE ResolveKey(a, key, 1, <<>>, <<>>)
         IN  IF ~r.ok THEN r
             ELSE Wrap(a, GetItem(h, a, r.val.apply_keys), r.val.apply_keys,
                       r.val.slice_axis)

\* LabelledDataArray._LabelIndexer.__getitem__(key), key a string
labels(a, key) ==
    IF key \notin Range(a.axis_names)
    THEN Raise(Err("ValueError", "axis_name_not_found", -1))
    ELSE IF ListIndex(a.axis_names, key) >= Len(a.axis_labels)
    THEN Raise(Err("IndexError", "list_index", -1))
    ELSE Return(a.axis_labels[ListIndex(a.axis_names, key) + 1])

\* an axis given as an index or as a name: axis if isinstance(axis, int) else axis_names.index(axis)
AxisIx(a, axis) ==
    IF axis.kind = "int" THEN Return(axis.i)
    ELSE IF axis.s \notin Range(a.axis_names)
    THEN Raise(Err("ValueError", "not_in_list", -1))
    ELSE Return(ListIndex(a.axis_names, axis.s))

\* rearrange, up to the constructor call: the transposed view, the labels, the names
RearrangeArgs(a, order) ==
    LET ix == [i \in DOMAIN order |-> ListIndex(a.axis_names, order[i])]
    IN  IF \E i \in DOMAIN order : order[i] \notin Range(a.axis_names)
        THEN Raise(Err("ValueError", "not_in_list", -1))
        ELSE IF \E i \in DOMAIN ix : ix[i] >= Len(a.axis_labels)
        THEN Raise(Err("IndexError", "list_index", -1))
        ELSE IF Len(ix) # ViewNdim(a.values)
        THEN Raise(Err("ValueError", "axes_dont_match_array", -1))
        ELSE IF Cardinality(Range(ix)) # Len(ix)
        THEN Raise(Err("ValueError", "repeated_axis", -1))
        ELSE Return([values |-> Transpose(a.values, ix),
                     axis_labels |-> [i \in DOMAIN ix |-> a.axis_labels[ix[i] + 1]],
                     axis_names |-> order])

\* rearrange(new_axis_names_order)
rearrange(h, a, order) ==
    LET r == RearrangeArgs(a, order)
    IN  IF ~r.ok THEN r
        ELSE LabelledDataArrayInit(h, r.val.values, r.val.axis_labels,
                                   Some(r.val.axis_names))

\* zip(axis_names, axis_labels) without entry axis_ix: the positions (1-based) kept
KeptAxes(a, axis_ix) ==
    SelectSeq(Identity(Min(Len(a.axis_names), Len(a.axis_labels))),
              LAMBDA i : i - 1 # axis_ix)

\* sum(axis), up to the constructor call: the summed buffer, the labels, the names
SumArgs(h, a, axis) ==
    LET r == AxisIx(a, axis)
        kept == KeptAxes(a, r.val)
    IN  IF ~r.ok THEN r
        ELSE IF r.val >= Len(a.axis_names)
        THEN Raise(Err("IndexError", "list_index", -1))
        ELSE IF kept = <<>>
        THEN Raise(Err("ValueError", "not_enough_values_to_unpack", -1))
        ELSE IF r.val >= ViewNdim(a.values)
        THEN Raise(Err("AxisError", "axis_out_of_bounds", r.val))
        ELSE Return([buffer |-> SumAxis(Materialize(h, a.values), r.val),
                     axis_labels |-> [j \in DOMAIN kept |-> a.axis_labels[kept[j]]],
                     axis_names |-> [j \in DOMAIN kept |-> a.axis_names[kept[j]]]])

\* the heap once values.sum has allocated its result
SumHeap(h, a, axis) ==
    IF SumArgs(h, a, axis).ok THEN Append(h, SumArgs(h, a, axis).val.buffer) ELSE h

\* sum(axis)
sum(h, a, axis) ==
    LET r == SumArgs(h, a, axis)
        h2 == SumHeap(h, a, axis)
    IN  IF ~r.ok THEN r
        ELSE LabelledDataArrayInit(h2, View(Len(h2), Identity(Len(r.val.buffer.shape))),
                                   r.val.axis_labels, Some(r.val.axis_names))

\* get_indexer(keys, axis)
get_indexer(a, keys, axis) ==
    LET r == AxisIx(a, axis)
    IN  IF ~r.ok THEN r
        ELSE IF r.val >= Len(a.axis_labels)
        THEN Raise(Err("IndexError", "list_index", -1))
        ELSE Return(GetIndexerFor(a.axis_labels[r.val + 1], keys))

(***************************** the callers' inputs *************************)
\* the largest number of axes a buffer of MaxCells elements can have
MaxNd == CHOOSE n \in 0..MaxCells : 2^n <= MaxCells /\ 2^(n + 1) > MaxCells

Shapes ==
    UNION {{s \in [1..n -> 2..MaxLen] : Prod(s) <= MaxCells} : n \in 1..MaxNd}

LabelPool == <<"a", "b", "c", "d", "e", "f", "g", "h", "i", "j">>
Schemes == {"distinct", "duplicated"}

\* a label vector of d labels: distinct labels a, b, c, .. or b, a, a, ..
LabelVec(scheme, d) ==
    IF scheme = "distinct" THEN SubSeq(LabelPool, 1, d)
    ELSE [i \in 1..d |-> IF i = 1 THEN "b" ELSE "a"]

AxisLabelsInputs == {[i \in DOMAIN ls |-> LabelVec(sc, ls[i])] : ls \in Shapes, sc \in Schemes}

NamePool == <<"x", "y", "z">>
AxisNamesInputs == {None} \cup {Some(SubSeq(NamePool, 1, k)) : k \in 1..Len(NamePool)}

Slices == {Slice(None, None, None), Slice(Some(1), None, None)}
KeyElems == Slices \cup {Str("a"), Str("q"), IntKey(0)}
SelKeys == UNION {[1..n -> KeyElems] : n \in 1..MaxNd}

Perms(s) == {p \in [DOMAIN s -> Range(s)] : Range(p) = Range(s)}
\* orders asked of rearrange: the permutations of the names, the names without the
\* last, the first name twice, and an unknown name
OrderInputs(a) ==
    Perms(a.axis_names)
    \cup {SubSeq(a.axis_names, 1, Len(a.axis_names) - 1),
          <<a.axis_names[1], a.axis_names[1]>>, <<"q">>}

AxisInputs(a) ==
    {IntKey(p) : p \in 0..a.n_dims} \cup {Str(x) : x \in Range(a.axis_names) \cup {"q"}}

IndexerKeys == UNION {[1..n -> {"a", "b", "q"}] : n \in 0..MaxKeys}

(***************************** the state machine ***************************)
Init ==
    /\ heap = <<>>
    /\ arrs = <<>>
    /\ origin = <<>>
    /\ call = [op |-> "none"]
    /\ ret = Return(None)
    /\ writes = 0

\* what a call that returns a new array object does to the state
Returned(h2, r, org) ==
    IF r.ok
    THEN /\ heap' = h2
         /\ arrs' = Append(arrs, r.val)
         /\ origin' = Append(origin, org)
    ELSE UNCHANGED <<heap, arrs, origin>>

\* a = LabelledDataArray(buffer, axis_labels, axis_names), buffer a fresh numpy array;
\* the caller builds one array, the first thing it does
NewLabelledDataArray ==
    /\ call.op = "none"
    /\ \E shape \in Shapes, axis_labels \in AxisLabelsInputs, axis_names \in AxisNamesInputs :
          LET h2 == Append(heap, Arange(shape))
              r == LabelledDataArrayInit(h2, View(Len(h2), Identity(Len(shape))),
                                         axis_labels, axis_names)
          IN  /\ call' = [op |-> "new", cls |-> "LabelledDataArray", shape |-> shape,
                          axis_labels |-> axis_labels, axis_names |-> axis_names]
              /\ ret' = r
              /\ Returned(h2, r, [op |-> "new", from |-> 0])
    /\ UNCHANGED writes

\* a = DataArray(buffer, axis_labels)
NewDataArray ==
    /\ call.op = "none"
    /\ \E shape \in Shapes, axis_labels \in AxisLabelsInputs :
          LET h2 == Append(heap, Arange(shape))
              r == DataArrayInit(h2, View(Len(h2), Identity(Len(shape))), axis_labels)
          IN  /\ call' = [op |-> "new", cls |-> "DataArray", shape |-> shape,
                          axis_labels |-> axis_labels, axis_names |-> None]
              /\ ret' = r
              /\ Returned(h2, r, [op |-> "new", from |-> 0])
    /\ UNCHANGED writes

\* arrs[i].sel[key]
Sel ==
    /\ \E i \in DOMAIN arrs, key \in SelKeys :
          /\ call' = [op |-> "sel", self |-> i, key |-> key]
          /\ ret' = sel(heap, arrs[i], key)
    /\ UNCHANGED <<heap, arrs, origin, writes>>

\* arrs[i][idx] = 0
Set ==
    /\ writes < MaxWrites
    /\ \E i \in DOMAIN arrs :
          \E idx \in IndexSet(Shape(heap, arrs[i])) :
              /\ call' = [op |-> "set", self |-> i, key |-> idx]
              /\ heap' = SetItem(heap, arrs[i], idx, 0)
    /\ ret' = Return(None)
    /\ writes' = writes + 1
    /\ UNCHANGED <<arrs, origin>>

\* b = arrs[i].rearrange(order)
Rearrange ==
    /\ Len(arrs) < MaxArrs
    /\ \E i \in DOMAIN arrs :
          /\ arrs[i].cls = "LabelledDataArray"
          /\ \E order \in OrderInputs(arrs[i]) :
                LET r == rearrange(heap, arrs[i], order)
                IN  /\ call' = [op |-> "rearrange", self |-> i, order |-> order]
                    /\ ret' = r
                    /\ Returned(heap, r, [op |-> "rearrange", from |-> i])
    /\ UNCHANGED writes

\* b = arrs[i].sum(axis)
Sum ==
    /\ Len(arrs) < MaxArrs
    /\ \E i \in DOMAIN arrs :
          /\ arrs[i].cls = "LabelledDataArray"
          /\ \E axis \in AxisInputs(arrs[i]) :
                LET r == sum(heap, arrs[i], axis)
                IN  /\ call' = [op |-> "sum", self |-> i, axis |-> axis]
                    /\ ret' = r
                    /\ Returned(SumHeap(heap, arrs[i], axis), r, [op |-> "sum", from |-> i])
    /\ UNCHANGED writes

\* arrs[i].get_indexer(keys, axis)
GetIndexer ==
    /\ \E i \in DOMAIN arrs :
          /\ arrs[i].cls = "LabelledDataArray"
          /\ \E keys \in IndexerKeys, axis \in AxisInputs(arrs[i]) :
                /\ call' = [op |-> "get_indexer", self |-> i, keys |-> keys, axis |-> axis]
                /\ ret' = get_indexer(arrs[i], keys, axis)
    /\ UNCHANGED <<heap, arrs, origin, writes>>

Next ==
    \/ NewLabelledDataArray
    \/ NewDataArray
    \/ Sel
    \/ Set
    \/ Rearrange
    \/ Sum
    \/ GetIndexer

Spec == Init /\ [][Next]_vars

\* The properties are checked under three parts of Next, one per group of
\* operations, each with the construction.

\* construction and label-based selection, on both classes
NextSel == NewLabelledDataArray \/ NewDataArray \/ Sel
SpecSel == Init /\ [][NextSel]_vars

\* construction, the operations returning new arrays, and positional assignment
NextXf == NewLabelledDataArray \/ Rearrange \/ Sum \/ Set
SpecXf == Init /\ [][NextXf]_vars

\* construction and label-to-position lookup
NextIdx == NewLabelledDataArray \/ GetIndexer
SpecIdx == Init /\ [][NextIdx]_vars

(***************************** properties **********************************)
\* the smallest position of x in vec
FirstPos(vec, x) ==
    CHOOSE p \in 0..(Len(vec) - 1) : vec[p + 1] = x /\ \A q \in 0..(p - 1) : vec[q + 1] # x

IsSlice(e) == e.kind = "slice"
IsLabelOf(a, k, e) == e.kind = "str" /\ e.s \in Range(a.axis_labels[k])
IsMissingLabelOf(a, k, e) == e.kind = "str" /\ e.s \notin Range(a.axis_labels[k])

\* a key with one element per axis, each a slice or a label present on its axis
WellTyped(a, key) ==
    /\ Len(key) = a.n_dims
    /\ \A k \in DOMAIN key : IsSlice(key[k]) \/ IsLabelOf(a, k, key[k])

SlicedAxes(key) == SelectSeq(Identity(Len(key)), LAMBDA k : IsSlice(key[k]))

\* the shape a well-typed key leaves: the length of every slice, in axis order
ExpectedShape(h, a, key) ==
    [j \in DOMAIN SlicedAxes(key) |->
        Len(SlicePositions(key[SlicedAxes(key)[j]], Shape(h, a)[SlicedAxes(key)[j]]))]

\* the buffer position that position idx of the result stands for
ExpectedSource(h, a, key, idx) ==
    [k \in DOMAIN key |->
        IF IsSlice(key[k])
        THEN SlicePositions(key[k], Shape(h, a)[k])
                 [idx[CHOOSE j \in DOMAIN SlicedAxes(key) : SlicedAxes(key)[j] = k] + 1]
        ELSE FirstPos(a.axis_labels[k], key[k].s)]

\* the values of result nd are the buffer's at the positions the key resolves to
ValuesAsResolved(h, a, key, nd) ==
    /\ nd.shape = ExpectedShape(h, a, key)
    /\ \A idx \in IndexSet(ExpectedShape(h, a, key)) :
          nd.data[idx] = Materialize(h, a.values).data[ExpectedSource(h, a, key, idx)]

\* the labels of the j-th sliced axis, cut by that axis's slice
ExpectedLabels(h, a, key, j) ==
    LET k == SlicedAxes(key)[j]
        pos == SlicePositions(key[k], Shape(h, a)[k])
    IN  [m \in DOMAIN pos |-> a.axis_labels[k][pos[m] + 1]]

\* C1: for every array and every sel key with one element per axis, each a slice or
\* a label present on its axis, and 1 or 2 slices: sel returns a Series (1 slice) or
\* a DataFrame (2 slices) whose values are the buffer's at the resolved positions
\* and whose k-th label vector is the k-th sliced axis's labels cut by that slice.
C1_SelLabelsAndValues ==
    (call.op = "sel" /\ WellTyped(arrs[call.self], call.key)
        /\ Len(SlicedAxes(call.key)) \in {1, 2})
    => LET a == arrs[call.self]
           key == call.key
       IN  /\ ret.ok
           /\ ValuesAsResolved(heap, a, key, ret.val.data)
           /\ Len(SlicedAxes(key)) = 1 =>
                 /\ ret.val.kind = "Series"
                 /\ ret.val.index = ExpectedLabels(heap, a, key, 1)
           /\ Len(SlicedAxes(key)) = 2 =>
                 /\ ret.val.kind = "DataFrame"
                 /\ ret.val.index = ExpectedLabels(heap, a, key, 1)
                 /\ ret.val.columns = ExpectedLabels(heap, a, key, 2)

\* a 3-D array selected with a label and two slices, one of them cutting its axis,
\* has returned a table
C1_Witness ==
    /\ call.op = "sel"
    /\ arrs[call.self].n_dims = 3
    /\ WellTyped(arrs[call.self], call.key)
    /\ Len(SlicedAxes(call.key)) = 2
    /\ \E k \in DOMAIN call.key : call.key[k] = Slice(Some(1), None, None)
    /\ \E k \in DOMAIN call.key : call.key[k].kind = "str"
    /\ ret.ok /\ ret.val.kind = "DataFrame"

\* what every sel call does: it changes neither buffer nor labels nor names; on a
\* well-typed key it returns the buffer's values at the first matching positions
SelResolvesFirstMatch ==
    /\ heap' = heap /\ arrs' = arrs
    /\ WellTyped(arrs[call'.self], call'.key) =>
          /\ ret'.ok
          /\ ValuesAsResolved(heap, arrs[call'.self], call'.key, ret'.val.data)

NamesAxis(r, i) == ~r.ok /\ r.err.what = "key_not_found" /\ r.err.axis = i - 1

\* C2 as stated: a label resolves to its smallest position, and a label missing on
\* axis i makes sel fail with an error naming axis i, nothing returned or changed.
C2_MissingLabelNamesItsAxis ==
    [][call'.op = "sel" =>
         /\ SelResolvesFirstMatch
         /\ \A i \in DOMAIN call'.key :
               (Len(call'.key) = arrs[call'.self].n_dims
                  /\ IsMissingLabelOf(arrs[call'.self], i, call'.key[i]))
               => NamesAxis(ret', i)]_vars

\* C2 amended: a label resolves to its smallest position, and a label missing on
\* axis i makes sel fail with an error naming axis i when every element before it
\* in the key is a slice or a label present on its axis (the elements are examined
\* in axis order and the first offending one decides the error); nothing is
\* returned or changed.
C2_FirstMissingLabelNamesItsAxis ==
    [][call'.op = "sel" =>
         /\ SelResolvesFirstMatch
         /\ \A i \in DOMAIN call'.key :
               (Len(call'.key) = arrs[call'.self].n_dims
                  /\ IsMissingLabelOf(arrs[call'.self], i, call'.key[i])
                  /\ \A k \in 1..(i - 1) :
                        IsSlice(call'.key[k]) \/ IsLabelOf(arrs[call'.self], k, call'.key[k]))
               => NamesAxis(ret', i)]_vars

\* sel has failed on a label missing on the second axis, after a duplicated label
\* present on the first, with an error naming the second axis
C2_Witness ==
    /\ call.op = "sel"
    /\ Len(call.key) = arrs[call.self].n_dims
    /\ Len(call.key) >= 2
    /\ call.key[1].kind = "str"
    /\ Len(FlatNonZero(arrs[call.self].axis_labels[1], call.key[1].s)) > 1
    /\ IsMissingLabelOf(arrs[call.self], 2, call.key[2])
    /\ NamesAxis(ret, 2)

\* C3: sel, on either class, rejects every key with one element per axis that holds
\* an element which is neither a slice nor a string.
C3_RejectsOtherKeyTypes ==
    (call.op = "sel" /\ Len(call.key) = arrs[call.self].n_dims
        /\ \E k \in DOMAIN call.key : call.key[k].kind \notin {"slice", "str"})
    => ~ret.ok

\* C4: construction from (buffer, axis_labels) succeeds exactly when there is one
\* label vector per axis of the buffer and each has as many labels as its axis has
\* positions; the array then has the buffer's shape; otherwise an error is raised
\* and no array exists.
C4_ConstructionIffShapesMatch ==
    call.op = "new" =>
        IF /\ Len(call.axis_labels) = Len(call.shape)
           /\ \A i \in DOMAIN call.shape : Len(call.axis_labels[i]) = call.shape[i]
        THEN ret.ok /\ Len(arrs) = 1 /\ arrs[1] = ret.val /\ Shape(heap, arrs[1]) = call.shape
        ELSE ~ret.ok /\ arrs = <<>>

\* a construction with the right number of label vectors, one of the wrong length,
\* has failed
C4_Witness ==
    /\ call.op = "new"
    /\ Len(call.axis_labels) = Len(call.shape)
    /\ Len(call.shape) >= 2
    /\ Len(call.axis_labels[1]) = call.shape[1]
    /\ Len(call.axis_labels[2]) # call.shape[2]
    /\ ~ret.ok

Distinct(s) == Cardinality(Range(s)) = Len(s)
Without(s, ax) == SubSeq(s, 1, ax) \o SubSeq(s, ax + 2, Len(s))
Contents(h, a) == Materialize(h, a.values)

\* C5: every LabelledDataArray that exists has exactly n_dims axis names: the
\* default names axis_0.. when none are given, and construction fails when the
\* names given are not as many as the buffer has axes.
C5_AxisNamesOnePerAxis ==
    /\ \A i \in DOMAIN arrs : Len(arrs[i].axis_names) = arrs[i].n_dims
    /\ (call.op = "new" /\ call.axis_names = None /\ ret.ok)
          => ret.val.axis_names = SubSeq(DefaultNames, 1, Len(call.shape))
    /\ (call.op = "new" /\ call.axis_names # None
            /\ Len(call.axis_names[1]) # Len(call.shape))
          => ~ret.ok

\* arrays i and j, one returned by rearrange or sum called on the other
Derived(i, j) ==
    \/ origin[i].op \in {"rearrange", "sum"} /\ origin[i].from = j
    \/ origin[j].op \in {"rearrange", "sum"} /\ origin[j].from = i

\* C6: no two arrays share mutable state: when b was returned by a.rearrange or
\* a.sum, an assignment into one of them leaves every get on the other as it was;
\* and rearrange and sum leave the receiver's buffer, labels and names unchanged.
C6_NoSharedMutableState ==
    [][/\ call'.op = "set" =>
             \A i \in DOMAIN arrs :
                 Derived(i, call'.self) => Contents(heap', arrs[i]) = Contents(heap, arrs[i])
       /\ call'.op \in {"rearrange", "sum"} =>
             /\ arrs'[call'.self] = arrs[call'.self]
             /\ Contents(heap', arrs[call'.self]) = Contents(heap, arrs[call'.self])]_vars

\* arrays a, b, c with b = a.rearrange(..) and c = b.rearrange(a's names)
RoundTrip(a, b, c) ==
    /\ origin[c].op = "rearrange" /\ origin[c].from = b
    /\ origin[b].op = "rearrange" /\ origin[b].from = a
    /\ arrs[c].axis_names = arrs[a].axis_names

\* C7: for every array with pairwise distinct axis names and every permutation of
\* those names, rearrange(new_order) returns an array, and rearranging that back to
\* the old order gives the shape, contents, names and labels of the original.
C7_RearrangeRoundTrip ==
    /\ (call.op = "rearrange" /\ Distinct(arrs[call.self].axis_names)
            /\ call.order \in Perms(arrs[call.self].axis_names))
          => ret.ok
    /\ \A a \in DOMAIN arrs, b \in DOMAIN arrs, c \in DOMAIN arrs :
          (Distinct(arrs[a].axis_names) /\ RoundTrip(a, b, c))
          => /\ Shape(heap, arrs[c]) = Shape(heap, arrs[a])
             /\ Contents(heap, arrs[c]) = Contents(heap, arrs[a])
             /\ arrs[c].axis_names = arrs[a].axis_names
             /\ arrs[c].axis_labels = arrs[a].axis_labels

\* the axis (0-based) an index or an existing name stands for
AxisOf(a, axis) == IF axis.kind = "int" THEN axis.i ELSE ListIndex(a.axis_names, axis.s)
ValidAxis(a, axis) ==
    IF axis.kind = "int" THEN axis.i \in 0..(a.n_dims - 1) ELSE axis.s \in Range(a.axis_names)

\* the sum of nd's elements whose positions are idx with one more position at ax
RECURSIVE Total(_, _, _, _)
Total(nd, idx, ax, ps) ==
    IF ps = {} THEN 0
    ELSE LET p == CHOOSE q \in ps : TRUE
         IN  nd.data[[k \in 1..(Len(idx) + 1) |->
                        IF k < ax + 1 THEN idx[k] ELSE IF k = ax + 1 THEN p ELSE idx[k - 1]]]
             + Total(nd, idx, ax, ps \ {p})

\* C8: for every array of n_dims >= 1 (with one name per axis) and every axis given
\* as an index in 0..n_dims-1 or as an existing name, sum(axis) returns an array with
\* the receiver's names and labels less that axis, in order, whose buffer is the
\* receiver's summed along that axis.
C8_SumRemovesOneAxis ==
    (call.op = "sum" /\ Len(arrs[call.self].axis_names) = arrs[call.self].n_dims
        /\ ValidAxis(arrs[call.self], call.axis))
    => LET a == arrs[call.self]
           ax == AxisOf(a, call.axis)
       IN  /\ ret.ok
           /\ ret.val.axis_names = Without(a.axis_names, ax)
           /\ ret.val.axis_labels = Without(a.axis_labels, ax)
           /\ Shape(heap, ret.val) = Without(Shape(heap, a), ax)
           /\ \A idx \in IndexSet(Shape(heap, ret.val)) :
                 Contents(heap, ret.val).data[idx]
                     = Total(Contents(heap, a), idx, ax, 0..(Shape(heap, a)[ax + 1] - 1))

\* C9: for every array (with one name per axis), every valid axis and every sequence
\* of keys, get_indexer returns one entry per key, in order: the key's position in
\* the axis's labels when present, -1 when absent.
C9_GetIndexerOnePerKey ==
    (call.op = "get_indexer" /\ Len(arrs[call.self].axis_names) = arrs[call.self].n_dims
        /\ ValidAxis(arrs[call.self], call.axis))
    => LET vec == arrs[call.self].axis_labels[AxisOf(arrs[call.self], call.axis) + 1]
       IN  /\ ret.ok
           /\ Len(ret.val) = Len(call.keys)
           /\ \A j \in DOMAIN call.keys :
                 IF call.keys[j] \in Range(vec)
                 THEN ret.val[j] \in 0..(Len(vec) - 1) /\ vec[ret.val[j] + 1] = call.keys[j]
                 ELSE ret.val[j] = -1

\* C10: starting from a constructed array with pairwise distinct axis names, after
\* any sequence of successful rearrange and sum calls every axis name of the result
\* is bound to the label vector it had in the starting array, and that vector has as
\* many labels as the result has positions along the name's axis.
C10_NamesKeepTheirLabels ==
    (arrs # <<>> /\ Distinct(arrs[1].axis_names))
    => \A i \in DOMAIN arrs : \A name \in Range(arrs[i].axis_names) :
          /\ labels(arrs[i], name).ok
          /\ labels(arrs[1], name).ok
          /\ labels(arrs[i], name).val = labels(arrs[1], name).val
          /\ Len(labels(arrs[i], name).val)
                 = Shape(heap, arrs[i])[ListIndex(arrs[i].axis_names, name) + 1]

====
